---- MODULE Spec2Model ----
(***************************************************************************)
(* Model of the recommendation engine of the Erlebnis-Portal (main.py):    *)
(* _recommend with its helpers _overlap and _has_any_tag, the request      *)
(* handler api_recommend, and the mtime-keyed JSON cache                   *)
(* _read_json_cached through which the catalog (index.json) is loaded.     *)
(*                                                                         *)
(* Scores are kept in hundredths (22 points = 2200), so that               *)
(* round(score, 2) is exact on every sum of the rule weights.              *)
(***************************************************************************)
EXTENDS Integers, Sequences, FiniteSets, TLC

VARIABLES
    pc,         \* "idle" before the request, "done" after api_recommend returned
    items,      \* idx["items"]: the catalog that load_index returns
    answers,    \* payload["answers"]
    limit_in,   \* payload["limit"], raw
    raised,     \* TRUE when _recommend ended with an exception
    out,        \* the list api_recommend returns (empty when raised)
    file,       \* index.json on disk: [mtime, ver], ver the version of its content
    cache,      \* _JSON_CACHE[path]: [hit, mtime, data], data a reference into heap
    heap,       \* the parsed JSON objects: heap[r] is the items list of object r
    th          \* per request thread: its place in _read_json_cached and in the
                \* loop of _recommend, with its locals mtime, data, i and the
                \* items the loop has read so far (seen)

vars == <<pc, items, answers, limit_in, raised, out, file, cache, heap, th>>

engineVars == <<pc, items, answers, limit_in, raised, out>>
cacheVars == <<file, cache, heap, th>>

----------------------------------------------------------------------------
(* JSON values.  A numeric field holds an integer, is absent / null (None), *)
(* or holds a non-numeric string (NaS), on which int() raises ValueError.   *)
(* A string field holds a string or NoStr (absent / null).                  *)

None == -1000001
NaS == -1000002
NoStr == "<none>"

\* Python truthiness of a JSON scalar: None and 0 are falsy, a non-empty
\* string is truthy.
Truthy(v) == v # None /\ v # 0

TruthyStr(s) == s # NoStr /\ s # ""

\* int(v or dflt): whether it raises, and its value when it does not.
IntOrRaises(v) == Truthy(v) /\ v = NaS

IntOr(v, dflt) == IF Truthy(v) THEN v ELSE dflt

Max(a, b) == IF a >= b THEN a ELSE b

Min(a, b) == IF a <= b THEN a ELSE b

----------------------------------------------------------------------------
(* Reason texts (main.py, ASCII transliteration of the umlauts).            *)

R_TIME_VERY == "Zeit passt sehr gut."
R_TIME_BASIC == "Zeit passt grundsaetzlich."
R_NEAR == "Sehr nah dran."
R_SETTING == "Setting passt (drinnen/draussen)."
R_FREE == "Kostenlos."
R_BUDGET == "Budget passt."
R_KIDS == "Familientauglich."
R_CALM == "Ruhiger Vibe passt."
R_ACTIVE == "Aktivitaetslevel passt."
R_ACTION == "Action-Vibe passt."
R_MOBILITY == "Anfahrt koennte ohne Auto/OePNV-Plan aufwaendiger sein."

----------------------------------------------------------------------------
(* Helpers *)

_overlap(a_min, a_max, b_min, b_max) == ~(a_max < b_min \/ a_min > b_max)

_has_any_tag(item, tags) == \E t \in tags : t \in item.tags

\* The defaults of the answer payload (lines 124-144).  budget_max is None
\* when absent or when int() fails on it.
Extract(a) ==
    [ time_min |-> IntOr(a.time_min_minutes, 0),
      time_max |-> IntOr(a.time_max_minutes, 24 * 60),
      max_travel |-> IntOr(a.max_travel_minutes, 999),
      mobility_modes |-> a.modes,
      kid_age_group |-> a.kid_age_group,
      kids_selected |-> a.kids_selected,
      vibe |-> a.vibe,
      setting |-> a.setting,
      budget_max |-> IF a.max_eur_pp = NaS THEN None ELSE a.max_eur_pp ]

\* The per-item accumulator of the loop body: st is "go" while the item is
\* still in the pass, "drop" after a continue, "raise" after an exception.
Acc0 == [st |-> "go", score |-> 0, reasons |-> <<>>]

Add(acc, pts) == [acc EXCEPT !.score = @ + pts]

AddR(acc, pts, reason) ==
    [acc EXCEPT !.score = @ + pts, !.reasons = Append(@, reason)]

Drop(acc) == [acc EXCEPT !.st = "drop"]

Raise(acc) == [acc EXCEPT !.st = "raise"]

\* Lines 152-166: hard filter time overlap, with the closeness score.
DurationRule(it, q, acc) ==
    IF acc.st # "go" THEN acc
    ELSE IF IntOrRaises(it.duration_min) \/ IntOrRaises(it.duration_max)
    THEN Raise(acc)
    ELSE LET it_min == IntOr(it.duration_min, 0)
             it_max == IntOr(it.duration_max, 24 * 60)
         IN  IF q.time_min # 0 \/ q.time_max # 0
             THEN IF ~_overlap(it_min, it_max, q.time_min, q.time_max)
                  THEN Drop(acc)
                  ELSE IF it_min >= q.time_min /\ it_max <= q.time_max
                       THEN AddR(acc, 2200, R_TIME_VERY)
                       ELSE AddR(acc, 1200, R_TIME_BASIC)
             ELSE acc

\* it_tr_min of lines 169-170 (when int() does not raise).
ItTrMin(it) == IntOr(it.travel_min, 0)

\* The travel time as a preference: the bonus, without the filter.
TravelRuleNoDrop(it, q, acc) ==
    IF acc.st # "go" THEN acc
    ELSE IF IntOrRaises(it.travel_min) \/ IntOrRaises(it.travel_max)
    THEN Raise(acc)
    ELSE LET it_tr_min == ItTrMin(it)
         IN  IF it_tr_min <= 15 /\ q.max_travel <= 30
             THEN AddR(acc, 1200, R_NEAR)
             ELSE IF it_tr_min <= q.max_travel
                  THEN Add(acc, 800)
                  ELSE acc

\* The travel bonus only for items strictly under the ceiling.
TravelRuleStrict(it, q, acc) ==
    IF acc.st # "go" THEN acc
    ELSE IF IntOrRaises(it.travel_min) \/ IntOrRaises(it.travel_max)
    THEN Raise(acc)
    ELSE LET it_tr_min == ItTrMin(it)
         IN  IF it_tr_min > q.max_travel THEN Drop(acc)
             ELSE IF it_tr_min <= 15 /\ q.max_travel <= 30
                  THEN AddR(acc, 1200, R_NEAR)
                  ELSE IF it_tr_min < q.max_travel
                       THEN Add(acc, 800)
                       ELSE acc

\* Lines 168-181: hard filter travel time, with the closeness bonus.
TravelRule(it, q, acc) ==
    IF acc.st # "go" THEN acc
    ELSE IF IntOrRaises(it.travel_min) \/ IntOrRaises(it.travel_max)
    THEN Raise(acc)
    ELSE LET it_tr_min == ItTrMin(it)
         IN  IF it_tr_min > q.max_travel THEN Drop(acc)
             ELSE IF it_tr_min <= 15 /\ q.max_travel <= 30
                  THEN AddR(acc, 1200, R_NEAR)
                  ELSE IF it_tr_min <= q.max_travel
                       THEN Add(acc, 800)
                       ELSE acc

\* SettingRule as a preference: scores a match, never drops.
SettingRuleSoft(it, q, acc) ==
    IF acc.st # "go" THEN acc
    ELSE IF TruthyStr(q.setting) /\ q.setting # "any" /\ _has_any_tag(it, {q.setting})
         THEN AddR(acc, 1000, R_SETTING)
         ELSE acc

\* Lines 183-189: setting.
SettingRule(it, q, acc) ==
    IF acc.st # "go" THEN acc
    ELSE IF TruthyStr(q.setting) /\ q.setting # "any"
         THEN IF ~_has_any_tag(it, {q.setting})
              THEN Drop(acc)
              ELSE AddR(acc, 1000, R_SETTING)
         ELSE acc

\* Lines 194-198: the item's max cost; int() failing gives 0.
ItMaxEur(it) ==
    IF it.cost_max = NaS THEN 0 ELSE IntOr(it.cost_max, 0)

\* A strict budget: an item of unknown price is left out.
BudgetRuleStrict(it, q, acc) ==
    IF acc.st # "go" THEN acc
    ELSE IF q.budget_max # None
         THEN LET it_max_eur == ItMaxEur(it)
              IN  IF it_max_eur > 0 /\ it_max_eur > q.budget_max
                  THEN Drop(acc)
                  ELSE IF it_max_eur = 0 /\ it.cost_type = "free"
                       THEN AddR(acc, 1000, R_FREE)
                       ELSE IF it_max_eur = 0
                            THEN Drop(acc)
                            ELSE AddR(acc, 600, R_BUDGET)
         ELSE acc

\* Lines 191-212: budget.
BudgetRule(it, q, acc) ==
    IF acc.st # "go" THEN acc
    ELSE IF q.budget_max # None
         THEN LET it_max_eur == ItMaxEur(it)
              IN  IF it_max_eur > 0 /\ it_max_eur > q.budget_max
                  THEN Drop(acc)
                  ELSE IF it_max_eur = 0 /\ it.cost_type = "free"
                       THEN AddR(acc, 1000, R_FREE)
                       ELSE IF it_max_eur = 0
                            THEN Add(acc, 400)
                            ELSE AddR(acc, 600, R_BUDGET)
         ELSE acc

\* Lines 214-220: kids fit.
KidsRule(it, q, acc) ==
    IF acc.st # "go" THEN acc
    ELSE IF q.kids_selected = "true"
            \/ (TruthyStr(q.kid_age_group) /\ q.kid_age_group # "mixed")
         THEN IF ~_has_any_tag(it, {"kids-ok"})
              THEN Drop(acc)
              ELSE AddR(acc, 1000, R_KIDS)
         ELSE acc

\* The vibe as a requirement: an item without the tag is left out.
VibeRuleHard(it, q, acc) ==
    IF acc.st # "go" THEN acc
    ELSE IF ~TruthyStr(q.vibe) THEN acc
    ELSE IF q.vibe = "calm"
         THEN IF _has_any_tag(it, {"calm"})
              THEN AddR(acc, 1400, R_CALM) ELSE Drop(acc)
    ELSE IF q.vibe = "easy"
         THEN IF _has_any_tag(it, {"calm", "active"})
              THEN Add(acc, 1000) ELSE Drop(acc)
    ELSE IF q.vibe = "sporty"
         THEN IF _has_any_tag(it, {"active"})
              THEN AddR(acc, 1400, R_ACTIVE) ELSE Drop(acc)
    ELSE IF q.vibe = "action"
         THEN IF _has_any_tag(it, {"action"})
              THEN AddR(acc, 1800, R_ACTION) ELSE Drop(acc)
    ELSE acc

\* The "action" branch testing the tag of the "sporty" branch.
VibeRuleWrongTag(it, q, acc) ==
    IF acc.st # "go" THEN acc
    ELSE IF ~TruthyStr(q.vibe) THEN acc
    ELSE IF q.vibe = "calm"
         THEN IF _has_any_tag(it, {"calm"})
              THEN AddR(acc, 1400, R_CALM) ELSE Add(acc, 400)
    ELSE IF q.vibe = "easy"
         THEN IF _has_any_tag(it, {"calm", "active"})
              THEN Add(acc, 1000) ELSE Add(acc, 400)
    ELSE IF q.vibe = "sporty"
         THEN IF _has_any_tag(it, {"active"})
              THEN AddR(acc, 1400, R_ACTIVE) ELSE Add(acc, 400)
    ELSE IF q.vibe = "action"
         THEN IF _has_any_tag(it, {"active"})
              THEN AddR(acc, 1800, R_ACTION) ELSE Add(acc, 400)
    ELSE acc

\* Lines 222-238: vibe scoring.
VibeRule(it, q, acc) ==
    IF acc.st # "go" THEN acc
    ELSE IF ~TruthyStr(q.vibe) THEN acc
    ELSE IF q.vibe = "calm"
         THEN IF _has_any_tag(it, {"calm"})
              THEN AddR(acc, 1400, R_CALM) ELSE Add(acc, 400)
    ELSE IF q.vibe = "easy"
         THEN IF _has_any_tag(it, {"calm", "active"})
              THEN Add(acc, 1000) ELSE Add(acc, 400)
    ELSE IF q.vibe = "sporty"
         THEN IF _has_any_tag(it, {"active"})
              THEN AddR(acc, 1400, R_ACTIVE) ELSE Add(acc, 400)
    ELSE IF q.vibe = "action"
         THEN IF _has_any_tag(it, {"action"})
              THEN AddR(acc, 1800, R_ACTION) ELSE Add(acc, 400)
    ELSE acc

\* The sequence f as a list of values (each element computed once).
List(f) == f \o <<>>

InSeq(x, s) == \E i \in 1..Len(s) : s[i] = x

\* Lines 240-247: mobility realism.
MobilityRule(it, q, acc) ==
    IF acc.st # "go" THEN acc
    ELSE IF q.mobility_modes # <<>>
         THEN IF (InSeq("walk", q.mobility_modes) \/ InSeq("public", q.mobility_modes))
                 /\ ItTrMin(it) >= 30
              THEN AddR(acc, -800, R_MOBILITY)
              ELSE Add(acc, 400)
         ELSE acc

\* Lines 249-255: bonuses.
Bonuses(it, q, acc) ==
    IF acc.st # "go" THEN acc
    ELSE LET b1 == IF _has_any_tag(it, {"photo"}) THEN 250 ELSE 0
             b2 == IF _has_any_tag(it, {"free"}) THEN 300 ELSE 0
             b3 == IF _has_any_tag(it, {"rain-ok"})
                      /\ q.setting \in {"indoor", "mixed", "any", NoStr, ""}
                   THEN 200 ELSE 0
         IN  Add(acc, b1 + b2 + b3)

\* The loop body after the time rule (lines 168-255).
AfterDuration(it, q, acc) ==
    Bonuses(it, q,
      MobilityRule(it, q,
        VibeRule(it, q,
          KidsRule(it, q,
            BudgetRule(it, q,
              SettingRule(it, q,
                TravelRule(it, q, acc)))))))

\* One iteration of the loop of lines 148-263, up to the append.
LoopBody(it, q) == AfterDuration(it, q, DurationRule(it, q, Acc0))

\* reasons[-4:]: keeps the last four.
TruncateLast(reasons) == SubSeq(reasons, Max(1, Len(reasons) - 3), Len(reasons))

\* reasons[:4]
Truncate(reasons) == SubSeq(reasons, 1, Min(4, Len(reasons)))

\* The entry appended at lines 257-263; idx is the catalog position of the
\* item the entry refers to.
Entry(acc, i) == [score |-> acc.score, reasons |-> Truncate(acc.reasons), idx |-> i]

\* The list out after the loop, from the accumulators of the iterations:
\* the entries of the items that reached the append, in catalog order.
Collect(accs) ==
    LET all == List([i \in 1..Len(accs) |-> Entry(accs[i], i)])
        Appended(e) == accs[e.idx].st = "go"
    IN  SelectSeq(all, Appended)

\* A sort that puts an entry before the earlier entries of its own score.
SortRankUnstable(s, i) ==
    1 + Cardinality({ j \in 1..Len(s) :
                        \/ s[j].score > s[i].score
                        \/ s[j].score = s[i].score /\ j > i })

\* The place list.sort(key=score, reverse=True) gives the i-th entry: after
\* every entry of a higher score and after the earlier entries of its own
\* score (the sort is stable).
SortRank(s, i) ==
    1 + Cardinality({ j \in 1..Len(s) :
                        \/ s[j].score > s[i].score
                        \/ s[j].score = s[i].score /\ j < i })

\* Line 265.
SortDesc(s) ==
    LET rank == List([i \in 1..Len(s) |-> SortRank(s, i)])
    IN  [ r \in 1..Len(s) |-> s[CHOOSE i \in 1..Len(s) : rank[i] = r] ]

\* A limit out of range replaced by the default page size.
ClampDefault(limit) == IF limit < 1 \/ limit > 50 THEN 12 ELSE limit

\* Line 266: max(1, min(int(limit), 50)).
Clamp(limit) == Max(1, Min(limit, 50))

\* The last k entries instead of the first: s[-k:].
SliceTail(s, k) ==
    IF k > 0 THEN SubSeq(s, Max(1, Len(s) - k + 1), Len(s))
    ELSE s

\* Python's s[:k] for any integer k.
Slice(s, k) ==
    IF k >= 0 THEN SubSeq(s, 1, Min(k, Len(s)))
    ELSE SubSeq(s, 1, Max(0, Len(s) + k))

\* _recommend on the catalog its: raised (an iteration ended with an
\* exception), or the ranked list.
_recommend(its, a, limit) ==
    LET q == Extract(a)
        accs == List([i \in 1..Len(its) |-> LoopBody(its[i], q)])
    IN  IF \E i \in 1..Len(its) : accs[i].st = "raise"
        THEN [raised |-> TRUE, out |-> <<>>]
        ELSE [raised |-> FALSE,
              out |-> Slice(SortDesc(Collect(accs)), Clamp(limit))]

\* Lines 676-680: the limit of the payload; 12 when absent or not an int.
PayloadLimit(l) == IF l = None \/ l = NaS THEN 12 ELSE l

----------------------------------------------------------------------------
(* Inputs: catalogs and requests. *)

MaxCatalog == 2
BigLen == 51

Item(dmin, dmax, tmin, tmax, tags, cmax, ctype) ==
    [ duration_min |-> dmin, duration_max |-> dmax,
      travel_min |-> tmin, travel_max |-> tmax,
      tags |-> tags, cost_max |-> cmax, cost_type |-> ctype ]

\* Near, indoor, family item with a known price, tagged "action".
ItAction == Item(40, 50, 10, None, {"indoor", "kids-ok", "action", "photo"}, 15, "paid")
\* The same item without the tag "action".
ItPlain == Item(40, 50, 10, None, {"indoor", "kids-ok", "photo"}, 15, "paid")
\* No duration given, far away, free.
ItFar == Item(None, None, 40, 60, {"calm", "free", "rain-ok"}, 0, "free")
\* Long, expensive, outdoor, no travel given.
ItLong == Item(100, 200, None, None, {"outdoor", "active"}, 40, "paid")
\* Malformed cost.
ItBadCost == Item(60, 120, 20, None, {"indoor", "kids-ok"}, NaS, "paid")
\* No cost given.
ItNoCost == Item(40, 50, 10, 0, {"indoor", "kids-ok", "photo"}, None, NoStr)
\* Malformed duration.
ItBadDuration == Item(NaS, 60, 10, None, {"indoor", "kids-ok"}, None, NoStr)
\* Malformed travel time.
ItBadTravel == Item(40, 50, NaS, None, {"indoor", "kids-ok"}, None, NoStr)

ItemPool ==
    { ItAction, ItPlain, ItFar, ItLong, ItBadCost, ItNoCost,
      ItBadDuration, ItBadTravel }

\* A catalog longer than the largest page.
BigCatalog == [i \in 1..BigLen |-> IF i % 3 = 0 THEN ItFar ELSE ItAction]

Catalogs ==
    UNION { [1..n -> ItemPool] : n \in 0..MaxCatalog } \cup { BigCatalog }

Answers(tmin, tmax, travel, modes, age, kids, vibe, setting, budget) ==
    [ time_min_minutes |-> tmin, time_max_minutes |-> tmax,
      max_travel_minutes |-> travel, modes |-> modes,
      kid_age_group |-> age, kids_selected |-> kids,
      vibe |-> vibe, setting |-> setting, max_eur_pp |-> budget ]

\* Nothing answered.
NoAnswers == Answers(None, None, None, <<>>, NoStr, NoStr, NoStr, NoStr, None)
\* Everything answered.
AllAnswers == Answers(30, 90, 30, <<"walk">>, NoStr, "true", "action", "indoor", 20)

\* Every combination of answered / not answered.
CoreQueries ==
    { Answers(t[1], t[2], tr, m, NoStr, k, v, s, b) :
        t \in {<<None, None>>, <<30, 90>>}, tr \in {None, 30},
        m \in {<<>>, <<"walk">>}, k \in {NoStr, "true"},
        v \in {NoStr, "action", "calm"}, s \in {NoStr, "indoor"},
        b \in {None, 20} }

\* NoAnswers and AllAnswers with one answer changed to a boundary value.
EdgeQueries ==
    UNION { { [a EXCEPT !.time_min_minutes = 0, !.time_max_minutes = 0],
              [a EXCEPT !.time_min_minutes = 0, !.time_max_minutes = 20],
              [a EXCEPT !.max_travel_minutes = 0],
              [a EXCEPT !.max_travel_minutes = 15],
              [a EXCEPT !.max_travel_minutes = 40],
              [a EXCEPT !.setting = "any"],
              [a EXCEPT !.setting = "outdoor"],
              [a EXCEPT !.max_eur_pp = 0],
              [a EXCEPT !.max_eur_pp = NaS],
              [a EXCEPT !.kids_selected = NoStr, !.kid_age_group = "mixed"],
              [a EXCEPT !.kids_selected = "false", !.kid_age_group = "0-5"],
              [a EXCEPT !.vibe = "easy"],
              [a EXCEPT !.vibe = "sporty"],
              [a EXCEPT !.modes = <<"car">>],
              [a EXCEPT !.modes = <<"bike", "public">>] } :
            a \in {NoAnswers, AllAnswers} }

QuerySet == CoreQueries \cup EdgeQueries

\* payload["limit"]: not an int, non-positive, small, huge.
LimitInputs == {NaS, 0, 1, 60}

----------------------------------------------------------------------------
(* The request handler. *)

\* POST /api/recommend (lines 671-705): one call of _recommend on the
\* catalog that load_index returns; the flattening keeps order, scores and
\* reasons.
api_recommend ==
    /\ pc = "idle"
    /\ \E a \in QuerySet, l \in LimitInputs :
         LET r == _recommend(items, a, PayloadLimit(l))
         IN  /\ answers' = a
             /\ limit_in' = l
             /\ raised' = r.raised
             /\ out' = r.out
    /\ pc' = "done"
    /\ UNCHANGED <<items, cacheVars>>

EngineInit ==
    /\ pc = "idle"
    /\ items \in Catalogs
    /\ answers = NoAnswers
    /\ limit_in = None
    /\ raised = FALSE
    /\ out = <<>>

----------------------------------------------------------------------------
(* The catalog cache under concurrent requests and reloads.  Flask serves   *)
(* each request on its own thread; a step is one statement of               *)
(* _read_json_cached or one iteration of the loop of _recommend.            *)

NThreads == 2
MaxVersion == 3

Threads == 1..NThreads

\* The items of version v of index.json; every version has other items.
Content(v) == << [ver |-> v, k |-> 1], [ver |-> v, k |-> 2] >>

ThreadStart == [pc |-> "getmtime", mtime |-> 0, data |-> 0, i |-> 1, seen |-> <<>>]

CacheInit ==
    /\ file = [mtime |-> 1, ver |-> 1]
    /\ cache = [hit |-> FALSE, mtime |-> 0, data |-> 0]
    /\ heap = <<>>
    /\ th = [t \in Threads |-> ThreadStart]

\* The catalog file is replaced by a new version; its mtime advances, or
\* stays when the change falls within the clock's granularity.
WriteFile ==
    /\ file.ver < MaxVersion
    /\ \E m \in {file.mtime, file.mtime + 1} :
         file' = [mtime |-> m, ver |-> file.ver + 1]
    /\ UNCHANGED <<cache, heap, th, engineVars>>

\* Line 58: mtime = os.path.getmtime(path).
GetMtime(t) ==
    /\ th[t].pc = "getmtime"
    /\ th' = [th EXCEPT ![t].mtime = file.mtime, ![t].pc = "lookup"]
    /\ UNCHANGED <<file, cache, heap, engineVars>>

\* Lines 62-64: a hit of the same mtime returns the cached object.
Lookup(t) ==
    /\ th[t].pc = "lookup"
    /\ IF cache.hit /\ cache.mtime = th[t].mtime
       THEN th' = [th EXCEPT ![t].data = cache.data, ![t].pc = "loop"]
       ELSE th' = [th EXCEPT ![t].pc = "load"]
    /\ UNCHANGED <<file, cache, heap, engineVars>>

\* Lines 66-67: json.load builds a new object from the file as it is now.
Load(t) ==
    /\ th[t].pc = "load"
    /\ heap' = Append(heap, Content(file.ver))
    /\ th' = [th EXCEPT ![t].data = Len(heap) + 1, ![t].pc = "store"]
    /\ UNCHANGED <<file, cache, engineVars>>

\* A reload that refreshes the cached list in place (hit[1][:] = data)
\* instead of replacing the cache entry.
StoreInPlace(c, h, mtime, data) ==
    IF c.hit
    THEN [cache |-> [c EXCEPT !.mtime = mtime],
          heap |-> [h EXCEPT ![c.data] = h[data]]]
    ELSE [cache |-> [hit |-> TRUE, mtime |-> mtime, data |-> data], heap |-> h]

\* Line 69: _JSON_CACHE[path] = (mtime, data): the entry is replaced, no
\* object is changed.
Store(c, h, mtime, data) ==
    [cache |-> [hit |-> TRUE, mtime |-> mtime, data |-> data], heap |-> h]

\* Lines 69-70, then lines 120-121: items = idx["items"].
Publish(t) ==
    /\ th[t].pc = "store"
    /\ LET s == Store(cache, heap, th[t].mtime, th[t].data)
       IN  cache' = s.cache /\ heap' = s.heap
    /\ th' = [th EXCEPT ![t].pc = "loop"]
    /\ UNCHANGED <<file, engineVars>>

\* Line 148: one iteration of `for it in items`, on the list object the
\* call holds.
LoopStep(t) ==
    /\ th[t].pc = "loop"
    /\ th[t].i <= Len(heap[th[t].data])
    /\ th' = [th EXCEPT ![t].seen = Append(@, heap[th[t].data][th[t].i]),
                        ![t].i = @ + 1]
    /\ UNCHANGED <<file, cache, heap, engineVars>>

\* Lines 265-266: the loop is over, the call returns.
Return(t) ==
    /\ th[t].pc = "loop"
    /\ th[t].i > Len(heap[th[t].data])
    /\ th' = [th EXCEPT ![t].pc = "done"]
    /\ UNCHANGED <<file, cache, heap, engineVars>>

Init == EngineInit /\ CacheInit

Next == api_recommend

Spec == Init /\ [][Next]_vars

InitReload ==
    /\ pc = "idle"
    /\ items = <<>>
    /\ answers = NoAnswers
    /\ limit_in = None
    /\ raised = FALSE
    /\ out = <<>>
    /\ CacheInit

NextReload ==
    \/ WriteFile
    \/ \E t \in Threads :
         \/ GetMtime(t)
         \/ Lookup(t)
         \/ Load(t)
         \/ Publish(t)
         \/ LoopStep(t)
         \/ Return(t)

SpecReload == InitReload /\ [][NextReload]_vars

----------------------------------------------------------------------------
(* Properties of the ranking engine. *)

\* The query as _recommend reads it, and the limit as api_recommend passes it.
Q == Extract(answers)
Lim == PayloadLimit(limit_in)
Returned == pc = "done" /\ ~raised

\* The catalog positions in a result list, and the entry of a position.
IdxSet(o) == { o[k].idx : k \in 1..Len(o) }
Pos(o, i) == CHOOSE k \in 1..Len(o) : o[k].idx = i
EntryOf(o, i) == o[Pos(o, i)]

\* The item's duration interval and minimum travel time, defaults applied.
DurMin(it) == IF it.duration_min \in {None, 0} THEN 0 ELSE it.duration_min
DurMax(it) == IF it.duration_max \in {None, 0} THEN 1440 ELSE it.duration_max
TrMin(it) == IF it.travel_min = None THEN 0 ELSE it.travel_min
Cost(it) == IF it.cost_max \in {None, NaS} THEN 0 ELSE it.cost_max
KidsAsked(a) ==
    a.kids_selected = "true" \/ a.kid_age_group \notin {NoStr, "", "mixed"}
SettingAsked(a) == a.setting \notin {NoStr, "", "any"}

\* C1: every returned item satisfies each hard filter that applies: its
\* duration interval overlaps the query's time window, its minimum travel
\* time is within the query's max travel, it carries the setting tag when a
\* setting other than "any" is asked, its max cost is 0 or within the budget
\* when a budget is set, and it is tagged "kids-ok" when kids are announced.
\* (The query values are those _recommend reads, defaults applied.)
C1_HardFilterSoundness ==
    Returned =>
      \A k \in 1..Len(out) :
        LET it == items[out[k].idx]
        IN  /\ DurMax(it) >= Q.time_min /\ DurMin(it) <= Q.time_max
            /\ TrMin(it) <= Q.max_travel
            /\ SettingAsked(answers) => answers.setting \in it.tags
            /\ Q.budget_max # None => (Cost(it) = 0 \/ Cost(it) <= Q.budget_max)
            /\ KidsAsked(answers) => "kids-ok" \in it.tags

\* All five filters apply, one item passes them and another one, of the same
\* catalog, is left out although the page is not full.
C1_Witness ==
    /\ Returned
    /\ answers = AllAnswers
    /\ Len(items) = 2
    /\ Len(out) = 1
    /\ Lim >= 2

\* C2: for every limit the call returns without an error of its own (an
\* exception comes only from a malformed duration or travel field of the
\* catalog) and returns at most clamp(limit, 1, 50) entries.
C2_LimitBound ==
    pc = "done" =>
      /\ raised =>
           \E i \in 1..Len(items) :
             NaS \in { items[i].duration_min, items[i].duration_max,
                       items[i].travel_min, items[i].travel_max }
      /\ ~raised =>
           Len(out) <= (IF Lim < 1 THEN 1 ELSE IF Lim > 50 THEN 50 ELSE Lim)

\* A limit above 50 on a catalog of more than 50 surviving items.
C2_Witness ==
    /\ Returned
    /\ limit_in = 60
    /\ Len(items) > 50
    /\ Len(out) = 50

\* C3: the scores of the output are non-increasing, and entries of equal
\* score keep their catalog order.
C3_SortCorrectness ==
    Returned =>
      \A j, k \in 1..Len(out) :
        j < k => /\ out[j].score >= out[k].score
                 /\ out[j].score = out[k].score => out[j].idx < out[k].idx

\* An output with a tie and with a pair the sort has moved.
C3_Witness ==
    /\ Returned
    /\ \E j, k \in 1..Len(out) : j < k /\ out[j].score = out[k].score
    /\ \E j, k \in 1..Len(out) : j < k /\ out[j].idx > out[k].idx

\* The reasons that fire for an item, rule by rule in the order duration,
\* travel, setting, budget, kids, vibe, mobility.
FiredReasons(it, a) ==
    LET q == Extract(a)
    IN  (IF q.time_min # 0 \/ q.time_max # 0
         THEN IF DurMin(it) >= q.time_min /\ DurMax(it) <= q.time_max
              THEN <<R_TIME_VERY>> ELSE <<R_TIME_BASIC>>
         ELSE <<>>)
        \o (IF TrMin(it) <= 15 /\ q.max_travel <= 30 THEN <<R_NEAR>> ELSE <<>>)
        \o (IF SettingAsked(a) THEN <<R_SETTING>> ELSE <<>>)
        \o (IF q.budget_max = None THEN <<>>
            ELSE IF Cost(it) = 0 /\ it.cost_type = "free" THEN <<R_FREE>>
            ELSE IF Cost(it) = 0 THEN <<>>
            ELSE <<R_BUDGET>>)
        \o (IF KidsAsked(a) THEN <<R_KIDS>> ELSE <<>>)
        \o (IF a.vibe = "calm" /\ "calm" \in it.tags THEN <<R_CALM>>
            ELSE IF a.vibe = "sporty" /\ "active" \in it.tags THEN <<R_ACTIVE>>
            ELSE IF a.vibe = "action" /\ "action" \in it.tags THEN <<R_ACTION>>
            ELSE <<>>)
        \o (IF a.modes # <<>>
               /\ (\E n \in 1..Len(a.modes) : a.modes[n] \in {"walk", "public"})
               /\ TrMin(it) >= 30
            THEN <<R_MOBILITY>> ELSE <<>>)

\* C4: the reasons of every output entry are the first min(4, n) of the n
\* reasons that fired for its item, in rule order; with more than four, the
\* later ones are dropped.
C4_ReasonsPrefix ==
    Returned =>
      \A k \in 1..Len(out) :
        LET fired == FiredReasons(items[out[k].idx], answers)
        IN  /\ Len(out[k].reasons) <= 4
            /\ out[k].reasons = SubSeq(fired, 1, Min(4, Len(fired)))

\* An entry for which six reasons fired.
C4_Witness ==
    /\ Returned
    /\ \E k \in 1..Len(out) :
         /\ Len(FiredReasons(items[out[k].idx], answers)) = 6
         /\ Len(out[k].reasons) = 4

\* The catalog with every non-numeric duration, travel and cost field
\* replaced by an absent one (which reads as the field's default).
Num(v) == IF v = NaS THEN None ELSE v
Repaired(its) ==
    [ i \in 1..Len(its) |->
        [ its[i] EXCEPT !.duration_min = Num(@), !.duration_max = Num(@),
                        !.travel_min = Num(@), !.travel_max = Num(@),
                        !.cost_max = Num(@) ] ]

\* C5: a catalog item with a non-numeric or missing duration, travel or
\* cost field never aborts the pass: the call returns, and it returns what
\* it returns on the catalog with the defective fields at their defaults.
C5_RecordDefectsNeverAbort ==
    pc = "done" =>
      /\ ~raised
      /\ out = _recommend(Repaired(items), answers, Lim).out

\* The page holds the whole catalog: the limit cuts nothing.
NoCut == Len(items) <= 50 /\ Len(items) <= Lim

NoWindow(a) ==
    a.time_min_minutes \in {None, 0} /\ a.time_max_minutes \in {None, 0}

\* C6: without a time window in the query (both bounds absent or zero) the
\* duration rule is not applied: no entry carries a "time fits" reason,
\* every score is the score of the other rules alone, and no item that the
\* other rules keep is missing.
C6_DurationRuleConditional ==
    (Returned /\ NoWindow(answers)) =>
      /\ \A k \in 1..Len(out) :
           /\ ~InSeq(R_TIME_VERY, out[k].reasons)
           /\ ~InSeq(R_TIME_BASIC, out[k].reasons)
           /\ out[k].score = AfterDuration(items[out[k].idx], Q, Acc0).score
      /\ NoCut =>
           \A i \in 1..Len(items) :
             AfterDuration(items[i], Q, Acc0).st = "go" => i \in IdxSet(out)

\* The same request without a budget.
NoBudget == _recommend(items, [answers EXCEPT !.max_eur_pp = None], Lim)

\* C7: with a budget set, an item whose max cost is absent, zero or
\* non-numeric is never dropped by the budget rule, whatever the budget; the
\* rule gives it exactly +4 and no reason, or +10 and the reason "Kostenlos."
\* when its cost type is "free"; the budget rule drops only items of a
\* known positive max cost above the budget.
C7_BudgetCoercion ==
    (Returned /\ Q.budget_max # None /\ NoCut) =>
      LET nb == NoBudget
      IN
      /\ ~nb.raised
      /\ \A i \in 1..Len(items) :
           LET it == items[i]
               in1 == i \in IdxSet(out)
               in0 == i \in IdxSet(nb.out)
           IN  /\ it.cost_max \in {None, 0, NaS} =>
                    /\ in1 <=> in0
                    /\ in1 =>
                         LET e1 == EntryOf(out, i)
                             e0 == EntryOf(nb.out, i)
                         IN  IF it.cost_type = "free"
                             THEN /\ e1.score = e0.score + 1000
                                  /\ InSeq(R_FREE, e1.reasons)
                             ELSE /\ e1.score = e0.score + 400
                                  /\ e1.reasons = e0.reasons
               /\ (in0 /\ ~in1) =>
                    /\ it.cost_max \notin {None, NaS}
                    /\ it.cost_max > 0
                    /\ it.cost_max > Q.budget_max

\* A budget of 0: the item of malformed cost is returned, the other item of
\* the catalog, of a known price, is dropped.
C7_Witness ==
    /\ Returned
    /\ answers.max_eur_pp = 0
    /\ NoCut
    /\ Len(items) = 2
    /\ Len(out) = 1
    /\ Len(NoBudget.out) = 2
    /\ items[out[1].idx].cost_max = NaS

Vibes == {NoStr, "calm", "easy", "sporty", "action"}
ModeLists == {<<>>, <<"walk">>, <<"car">>, <<"bike", "public">>}

\* The same request with other soft answers.
WithSoft(v, m) ==
    _recommend(items, [answers EXCEPT !.vibe = v, !.modes = m], Lim)

\* C8: two requests that differ only in vibe and modes, on the same catalog
\* (at most 50 items) with a limit of at least its size, return the same
\* set of items.
C8_SoftRulesNeverFilter ==
    (Returned /\ NoCut) =>
      \A v \in Vibes, m \in ModeLists :
        LET r == WithSoft(v, m)
        IN  ~r.raised /\ IdxSet(r.out) = IdxSet(out)

\* A vibe and modes are given, hard filters apply, and another vibe returns
\* the same two items in the other order.
C8_Witness ==
    /\ Returned
    /\ NoCut
    /\ TruthyStr(answers.vibe)
    /\ answers.modes # <<>>
    /\ SettingAsked(answers)
    /\ KidsAsked(answers)
    /\ Len(out) = 2
    /\ \E v \in Vibes :
         /\ Len(WithSoft(v, answers.modes).out) = 2
         /\ WithSoft(v, answers.modes).out[1].idx = out[2].idx

\* Two returned items that differ only in the tag "action": <<tagged,
\* untagged>> catalog positions.
ActionPairs ==
    { p \in IdxSet(out) \X IdxSet(out) :
        /\ "action" \notin items[p[2]].tags
        /\ items[p[1]] = [items[p[2]] EXCEPT !.tags = @ \cup {"action"}] }

\* What the vibe rule adds to the score of the returned item at position i.
VibePart(i) ==
    EntryOf(out, i).score
      - LoopBody(items[i], Extract([answers EXCEPT !.vibe = NoStr])).score

\* The number of reasons that fire before the vibe rule.
ReasonsBeforeVibe(i) ==
    Len(FiredReasons(items[i], [answers EXCEPT !.vibe = NoStr, !.modes = <<>>]))

\* C9 as stated: with vibe "action", of two returned items that differ only
\* in the tag "action", the tagged one gets +18 and the reason
\* "Action-Vibe passt.", the other one +4, and the tagged one comes first.
C9_ActionVibeAsStated ==
    (Returned /\ answers.vibe = "action") =>
      \A p \in ActionPairs :
        /\ VibePart(p[1]) = 1800
        /\ InSeq(R_ACTION, EntryOf(out, p[1]).reasons)
        /\ VibePart(p[2]) = 400
        /\ Pos(out, p[1]) < Pos(out, p[2])

\* C9, amended: the tagged item gets +18, the other one +4, the tagged one
\* comes first whatever the catalog order, and the tagged one carries the
\* reason "Action-Vibe passt." exactly when fewer than four reasons fired
\* before the vibe rule (reasons[:4] cuts it off otherwise).
C9_ActionVibe ==
    (Returned /\ answers.vibe = "action") =>
      \A p \in ActionPairs :
        /\ VibePart(p[1]) = 1800
        /\ InSeq(R_ACTION, EntryOf(out, p[1]).reasons)
             <=> ReasonsBeforeVibe(p[1]) < 4
        /\ VibePart(p[2]) = 400
        /\ Pos(out, p[1]) < Pos(out, p[2])

\* The tagged item comes second in the catalog and first in the output, and
\* its vibe reason is cut off.
C9_Witness ==
    /\ Returned
    /\ answers.vibe = "action"
    /\ \E p \in ActionPairs :
         /\ p[1] > p[2]
         /\ Pos(out, p[1]) < Pos(out, p[2])
         /\ ~InSeq(R_ACTION, EntryOf(out, p[1]).reasons)

\* C10: whatever the interleaving of requests and reloads, a call of
\* _recommend reads all its items from one catalog snapshot: what its loop
\* has read is always the beginning of one version of the catalog, and all
\* of that version when the call returns.
C10_SnapshotConsistency ==
    \A t \in Threads :
      \E v \in 1..file.ver :
        /\ th[t].seen = SubSeq(Content(v), 1, Len(th[t].seen))
        /\ th[t].pc = "done" => th[t].seen = Content(v)

\* A call has returned a whole catalog that is not the current one, while
\* the cache entry was replaced during its loop.
C10_Witness ==
    \E t \in Threads :
      /\ th[t].pc = "done"
      /\ th[t].seen = Content(1)
      /\ cache.hit
      /\ cache.data # th[t].data
      /\ file.ver > 1

\* The same request without a max travel time.
NoMaxTravel ==
    _recommend(items, [answers EXCEPT !.max_travel_minutes = None], Lim)

Survivors == { i \in 1..Len(items) : LoopBody(items[i], Q).st = "go" }
ClampedLim == IF Lim < 1 THEN 1 ELSE IF Lim > 50 THEN 50 ELSE Lim

\* C12: the output is exactly the first min(S, clamp(limit, 1, 50)) entries
\* of the S surviving items ordered by score, highest first, ties in catalog
\* order: it has that many entries, the entry at place r is the survivor with
\* r - 1 survivors before it in that order, no survivor left out has a
\* higher score than a returned one, and the output is shorter than the
\* clamped limit only when fewer items survived.
C12_TopNCompleteness ==
    Returned =>
      LET sc == List([i \in 1..Len(items) |-> LoopBody(items[i], Q).score])
          S == Survivors
          Before(i) == { j \in S : sc[j] > sc[i] \/ (sc[j] = sc[i] /\ j < i) }
          n == Min(Cardinality(S), ClampedLim)
      IN  /\ Len(out) = n
          /\ \A r \in 1..n :
               /\ out[r].idx \in S
               /\ out[r].score = sc[out[r].idx]
               /\ Cardinality(Before(out[r].idx)) = r - 1
          /\ \A i \in S \ IdxSet(out) :
               \A r \in 1..n : sc[i] <= out[r].score
          /\ Len(out) < ClampedLim => IdxSet(out) = S

\* The limit cuts the list: two items survive, the one with the higher
\* score comes second in the catalog and is the one returned.
C12_Witness ==
    /\ Returned
    /\ Cardinality(Survivors) = 2
    /\ Len(out) = 1
    /\ out[1].idx = 2
    /\ \E i \in Survivors : LoopBody(items[i], Q).score < out[1].score

\* The mobility penalty applies to the item under the request.
Penalised(it) ==
    /\ InSeq("walk", Q.mobility_modes) \/ InSeq("public", Q.mobility_modes)
    /\ TrMin(it) >= 30

\* C13: scores of output items are never negative: every returned item has
\* passed the travel rule with at least +8 (8.00 is 800), and its score is
\* never more than the 8 points of the mobility penalty below what the
\* travel rule gave it, and only when that penalty applies.
C13_ScoresNonNegative ==
    Returned =>
      \A k \in 1..Len(out) :
        LET it == items[out[k].idx]
            t == TravelRule(it, Q, Acc0)
        IN  /\ out[k].score >= 0
            /\ t.st = "go"
            /\ t.score >= 800
            /\ out[k].score >= t.score - 800
            /\ ~Penalised(it) => out[k].score >= t.score

\* A returned item that took the mobility penalty after the plain +8 of the
\* travel rule.
C13_Witness ==
    /\ Returned
    /\ \E k \in 1..Len(out) :
         /\ Penalised(items[out[k].idx])
         /\ InSeq(R_MOBILITY, out[k].reasons)
         /\ TravelRule(items[out[k].idx], Q, Acc0).score = 800

====
